---- MODULE Spec2Model ----
(***************************************************************************)
(* Model of the nzcp decoding pipeline:                                    *)
(*   payload/barcode.rs  QrBarcode::from_str   text -> bytes               *)
(*   payload/cwt.rs      CwtPayload / VerifiableCredential /               *)
(*                       DecentralizedIdentifier / deserialize_numeric_date*)
(*   pass/public_covid_pass.rs  PublicCovidPass / deserialize_iso_8601_date*)
(*                                                                         *)
(* The library is a set of pure functions.  A behaviour of the model is    *)
(* one call: Init draws the function that is called and its argument, the  *)
(* action of that function computes what the call returns.                 *)
(*                                                                         *)
(* Text is a sequence of characters.  A character is a one-character       *)
(* string when it is printable ASCII (the grave accent aside) or one of    *)
(* \t \n \f \r, and "U+" followed by its code point in decimal otherwise   *)
(* (CharOf).                                                               *)
(* A call ends in one of three ways: Ok(v), Err(e) (a Result::Err the      *)
(* caller receives) or Panic (the thread unwinds, nothing is returned).    *)
(***************************************************************************)
EXTENDS Integers, Sequences, FiniteSets, TLC

VARIABLES pc, call, arg, ret

vars == <<pc, call, arg, ret>>

\* ------------------------------------------------------------------ bounds

\* longest base-32 body drawn for QrBarcode::from_str
MaxBody == 3

\* ------------------------------------------------------------ call results

Ok(v) == [kind |-> "Ok", val |-> v]

Err(e) == [kind |-> "Err", err |-> e]

Panic == [kind |-> "Panic"]

None == [some |-> FALSE]

Some(v) == [some |-> TRUE, v |-> v]

\* --------------------------------------------------------------------- text

\* str::strip_prefix: the remainder after the prefix, or None
strip_prefix(string, prefix) ==
    IF Len(string) >= Len(prefix) /\ SubSeq(string, 1, Len(prefix)) = prefix
    THEN Some(SubSeq(string, Len(prefix) + 1, Len(string)))
    ELSE None

UPPER == <<"A","B","C","D","E","F","G","H","I","J","K","L","M","N","O","P","Q","R","S","T","U","V","W","X","Y","Z">>

LOWER == <<"a","b","c","d","e","f","g","h","i","j","k","l","m","n","o","p","q","r","s","t","u","v","w","x","y","z">>

DIGITS == <<"0","1","2","3","4","5","6","7","8","9">>

\* 1-based position of c in the sequence s, 0 when absent
IndexOf(s, c) == IF \E i \in 1..Len(s) : s[i] = c THEN CHOOSE i \in 1..Len(s) : s[i] = c ELSE 0

to_ascii_uppercase(c) == IF IndexOf(LOWER, c) > 0 THEN UPPER[IndexOf(LOWER, c)] ELSE c

IsDigit(c) == IndexOf(DIGITS, c) > 0

DigitVal(c) == IndexOf(DIGITS, c) - 1

Min(a, b) == IF a < b THEN a ELSE b

\* the characters U+0020 to U+007E in the order of their code points
\* (no string holds a grave accent, U+0060)
ASCII_PRINTABLE ==
    <<" ", "!", "\"", "#", "$", "%", "&", "'", "(", ")", "*", "+", ",", "-", ".", "/",
       "0", "1", "2", "3", "4", "5", "6", "7", "8", "9", ":", ";", "<", "=", ">", "?",
       "@", "A", "B", "C", "D", "E", "F", "G", "H", "I", "J", "K", "L", "M", "N", "O",
       "P", "Q", "R", "S", "T", "U", "V", "W", "X", "Y", "Z", "[", "\\", "]", "^", "_",
       "U+96", "a", "b", "c", "d", "e", "f", "g", "h", "i", "j", "k", "l", "m", "n", "o",
       "p", "q", "r", "s", "t", "u", "v", "w", "x", "y", "z", "{", "|", "}", "~" >>

\* the character with the code point cp
CharOf(cp) ==
    IF cp >= 32 /\ cp <= 126 THEN ASCII_PRINTABLE[cp - 31]
    ELSE CASE cp = 9 -> "\t"
           [] cp = 10 -> "\n"
           [] cp = 12 -> "\f"
           [] cp = 13 -> "\r"
           [] OTHER -> "U+" \o ToString(cp)

\* the code points with the Unicode property White_Space
WHITE_SPACE ==
    {9, 10, 11, 12, 13, 32, 133, 160, 5760, 8232, 8233, 8239, 8287, 12288} \cup (8192..8202)

\* char::is_whitespace; U+000B, U+0085 and U+00A0 are known in the spelling
\* of CharOf and as one-character strings
is_whitespace(c) == c \in {CharOf(cp) : cp \in WHITE_SPACE} \cup {"", "", " "}

\* the number of bytes of the UTF-8 sequence that the byte b begins, 0 when
\* no sequence begins with b
Utf8Width(b) ==
    IF b < 128 THEN 1
    ELSE IF b >= 194 /\ b <= 223 THEN 2
    ELSE IF b >= 224 /\ b <= 239 THEN 3
    ELSE IF b >= 240 /\ b <= 244 THEN 4
    ELSE 0

IsContinuation(b) == b >= 128 /\ b <= 191

\* the second byte of a sequence: no overlong form, no surrogate, nothing
\* above U+10FFFF
SecondByteOk(first, second) ==
    CASE first = 224 -> second >= 160 /\ second <= 191
      [] first = 237 -> second >= 128 /\ second <= 159
      [] first = 240 -> second >= 144 /\ second <= 191
      [] first = 244 -> second >= 128 /\ second <= 143
      [] OTHER -> IsContinuation(second)

\* bytes begins with a well-formed sequence of w bytes
SequenceOk(bytes, w) ==
    /\ w >= 1 /\ Len(bytes) >= w
    /\ w >= 2 => SecondByteOk(bytes[1], bytes[2])
    /\ \A i \in 3..w : IsContinuation(bytes[i])

\* the code point that the first w bytes spell
CodePoint(bytes, w) ==
    CASE w = 1 -> bytes[1]
      [] w = 2 -> (bytes[1] - 192) * 64 + (bytes[2] - 128)
      [] w = 3 -> (bytes[1] - 224) * 4096 + (bytes[2] - 128) * 64 + (bytes[3] - 128)
      [] w = 4 -> (bytes[1] - 240) * 262144 + (bytes[2] - 128) * 4096
                  + (bytes[3] - 128) * 64 + (bytes[4] - 128)

Prepend(c, r) == IF r.some THEN Some(<<c>> \o r.v) ELSE None

RECURSIVE from_utf8(_)
Utf8Step(bytes, w) ==
    IF ~SequenceOk(bytes, w) THEN None
    ELSE Prepend(CharOf(CodePoint(bytes, w)), from_utf8(SubSeq(bytes, w + 1, Len(bytes))))

\* str::from_utf8: the text that the bytes spell, None when they spell none
from_utf8(bytes) ==
    IF bytes = <<>> THEN Some(<<>>) ELSE Utf8Step(bytes, Utf8Width(bytes[1]))

\* ------------------------------------------------------------------ base32

(***************************************************************************)
(* base32::decode(RFC4648 { padding: false }, data), crate base32 0.4.     *)
(* The inverse alphabet table is indexed by (uppercased byte - '0'): it    *)
(* holds 26..31 for '2'..'7', 0..25 for 'A'..'Z', 0 for '=' and -1 for the *)
(* other bytes between '0' and 'Z'; a byte outside the table is rejected.  *)
(* The padding flag of the alphabet is not read by decode.                 *)
(***************************************************************************)
RFC4648_INV_ALPHABET(c) ==
    LET u == to_ascii_uppercase(c) IN
    IF IndexOf(UPPER, u) > 0 THEN IndexOf(UPPER, u) - 1
    ELSE IF IsDigit(u) /\ DigitVal(u) >= 2 /\ DigitVal(u) <= 7 THEN 24 + DigitVal(u)
    ELSE IF u = "=" THEN 0
    ELSE -1

\* number of '=' at the end of data, looking at the last six bytes at most
RECURSIVE TrailingPad(_, _)
TrailingPad(data, i) ==
    IF i > Min(6, Len(data)) \/ data[Len(data) - i + 1] # "=" THEN 0
    ELSE 1 + TrailingPad(data, i + 1)

\* one chunk of at most eight 5-bit values (missing ones are 0) -> five bytes
ChunkBytes(chunk) ==
    LET buf == [i \in 1..8 |-> IF i <= Len(chunk) THEN RFC4648_INV_ALPHABET(chunk[i]) ELSE 0] IN
    << ((buf[1] * 8) % 256) + (buf[2] \div 4),
       ((buf[2] * 64) % 256) + ((buf[3] * 2) % 256) + (buf[4] \div 16),
       ((buf[4] * 16) % 256) + (buf[5] \div 2),
       ((buf[5] * 128) % 256) + ((buf[6] * 4) % 256) + (buf[7] \div 8),
       ((buf[7] * 32) % 256) + buf[8] >>

RECURSIVE AllChunks(_)
AllChunks(data) ==
    IF data = <<>> THEN <<>>
    ELSE ChunkBytes(SubSeq(data, 1, Min(8, Len(data))))
         \o AllChunks(SubSeq(data, Min(8, Len(data)) + 1, Len(data)))

base32_decode(data) ==
    IF \E i \in 1..Len(data) : RFC4648_INV_ALPHABET(data[i]) = -1 THEN None
    ELSE LET unpadded_data_length == Len(data) - TrailingPad(data, 1)
             output_length == (unpadded_data_length * 5) \div 8
         IN Some(SubSeq(AllChunks(data), 1, output_length))

\* ----------------------------------------------------------------- barcode

NZCP_PREFIX == <<"N","Z","C","P",":","/">>

VERSION_SEGMENT == <<"1","/">>

\* from_str with the prefix "NZCP:" in place of "NZCP:/"
from_str_short_prefix(string) ==
    LET a == strip_prefix(string, <<"N","Z","C","P",":">>) IN
    IF ~a.some THEN Err("MissingNzcpPrefix")
    ELSE LET base32_encoded_cwt == strip_prefix(a.v, VERSION_SEGMENT) IN
         IF ~base32_encoded_cwt.some THEN Err("InvalidVersion")
         ELSE LET cbor_array == base32_decode(base32_encoded_cwt.v) IN
              IF ~cbor_array.some THEN Err("InvalidBase32")
              ELSE Ok(cbor_array.v)

\* from_str with the version segment "1" in place of "1/"
from_str_version_digit(string) ==
    LET a == strip_prefix(string, NZCP_PREFIX) IN
    IF ~a.some THEN Err("MissingNzcpPrefix")
    ELSE LET base32_encoded_cwt == strip_prefix(a.v, <<"1">>) IN
         IF ~base32_encoded_cwt.some THEN Err("InvalidVersion")
         ELSE LET cbor_array == base32_decode(base32_encoded_cwt.v) IN
              IF ~cbor_array.some THEN Err("InvalidBase32")
              ELSE Ok(cbor_array.v)

\* QrBarcode::from_str
from_str(string) ==
    LET a == strip_prefix(string, NZCP_PREFIX) IN
    IF ~a.some THEN Err("MissingNzcpPrefix")
    ELSE LET base32_encoded_cwt == strip_prefix(a.v, VERSION_SEGMENT) IN
         IF ~base32_encoded_cwt.some THEN Err("InvalidVersion")
         ELSE LET cbor_array == base32_decode(base32_encoded_cwt.v) IN
              IF ~cbor_array.some THEN Err("InvalidBase32")
              ELSE Ok(cbor_array.v)

\* ------------------------------------------------------------------ chrono

\* chrono: the years a NaiveDate can hold, those of NaiveDate::MIN and
\* NaiveDate::MAX (earlier releases of chrono held one more year at either end)
MIN_YEAR == -262143

MAX_YEAR == 262142

\* a 64-bit integer n is held as [hi, lo] with n = hi * 2^31 + lo and
\* 0 <= lo < 2^31, the arithmetic of the checker being 32 bits wide
I64(hi, lo) == [hi |-> hi, lo |-> lo]

\* i64::div_euclid(86_400); 2^31 = 24855 * 86400 + 11648
DivEuclid86400(n) ==
    n.hi * 24855 + (n.hi * 11648) \div 86400 + n.lo \div 86400
    + (((n.hi * 11648) % 86400) + (n.lo % 86400)) \div 86400

\* i64::rem_euclid(86_400)
RemEuclid86400(n) == (((n.hi * 11648) % 86400) + (n.lo % 86400)) % 86400

is_leap_year(year) == (year % 4 = 0 /\ year % 100 # 0) \/ year % 400 = 0

DaysInMonth(year, month) ==
    IF month = 2 THEN (IF is_leap_year(year) THEN 29 ELSE 28)
    ELSE IF month \in {4, 6, 9, 11} THEN 30 ELSE 31

\* days of the months before `month` in `year`
RECURSIVE DaysBeforeMonth(_, _)
DaysBeforeMonth(year, month) ==
    IF month = 1 THEN 0
    ELSE DaysBeforeMonth(year, month - 1) + DaysInMonth(year, month - 1)

\* days of the 400-year cycle before its year y (0..400); year 0 is a leap year
DaysBeforeCycleYear(y) ==
    y * 365 + (y + 3) \div 4 - (y + 99) \div 100 + (y + 399) \div 400

\* NaiveDate::from_ymd_opt
from_ymd_opt(year, month, day) ==
    IF /\ year >= MIN_YEAR /\ year <= MAX_YEAR
       /\ month >= 1 /\ month <= 12
       /\ day >= 1 /\ day <= DaysInMonth(year, month)
    THEN Some([year |-> year, month |-> month, day |-> day])
    ELSE None

\* the year of the 400-year cycle that holds day `cycle` of the cycle
CycleYear(cycle) ==
    CHOOSE y \in 0..399 : DaysBeforeCycleYear(y) <= cycle /\ cycle < DaysBeforeCycleYear(y + 1)

\* the month of `year` that holds the day `ordinal0` (from 0) of the year
MonthOfOrdinal(year, ordinal0) ==
    CHOOSE m \in 1..12 :
        /\ DaysBeforeMonth(year, m) <= ordinal0
        /\ ordinal0 < DaysBeforeMonth(year, m) + DaysInMonth(year, m)

\* the date of the day `ordinal0` (from 0) of `year`, its month being known
DateOfMonth(year, month, ordinal0) ==
    from_ymd_opt(year, month, ordinal0 - DaysBeforeMonth(year, month) + 1)

DateOfOrdinal(year, ordinal0) == DateOfMonth(year, MonthOfOrdinal(year, ordinal0), ordinal0)

\* the date of day `cycle` of the 400-year cycle number year_div_400
DateOfCycleYear(year_div_400, year_mod_400, cycle) ==
    DateOfOrdinal(year_div_400 * 400 + year_mod_400, cycle - DaysBeforeCycleYear(year_mod_400))

DateOfCycle(year_div_400, cycle) == DateOfCycleYear(year_div_400, CycleYear(cycle), cycle)

\* days counted from 0000-01-01, split into 400-year cycles of 146097 days
DateOfDays(days) == DateOfCycle(days \div 146097, days % 146097)

\* NaiveDate::from_num_days_from_ce_opt: day 1 is 0001-01-01
from_num_days_from_ce_opt(days_ce) == DateOfDays(days_ce + 365)

\* NaiveDateTime::new(date, time) when there is a date
and_time(date, secs) ==
    IF date.some THEN Some([date |-> date.v, secs |-> secs]) ELSE None

(***************************************************************************)
(* NaiveDateTime::from_timestamp_opt(secs, 0).  The day count is converted *)
(* with to_i32 and checked_add(719_163); a count that does not fit, or a   *)
(* date outside MIN_YEAR..MAX_YEAR, gives None.  A secs with |hi| above    *)
(* 80000 lies more than 5 * 10^6 years from the epoch: None as well.       *)
(***************************************************************************)
from_timestamp_opt(secs) ==
    IF secs.hi < -80000 \/ secs.hi > 80000 THEN None
    ELSE and_time(from_num_days_from_ce_opt(DivEuclid86400(secs) + 719163), RemEuclid86400(secs))

\* the first of the positions `stops`, less one; `all` when there is none
BeforeFirst(stops, all) ==
    IF stops = {} THEN all ELSE (CHOOSE i \in stops : \A j \in stops : i <= j) - 1

\* how many of the first `max` characters of s are leading digits
LeadingDigits(s, max) ==
    BeforeFirst({i \in 1..Min(max, Len(s)) : ~IsDigit(s[i])}, Min(max, Len(s)))

RECURSIVE DecimalValue(_)
DecimalValue(s) ==
    IF s = <<>> THEN 0
    ELSE DecimalValue(SubSeq(s, 1, Len(s) - 1)) * 10 + DigitVal(s[Len(s)])

\* the value of the first n characters of s and what follows them
TakeDigits(s, min, n) ==
    IF n < min THEN None
    ELSE Some([value |-> DecimalValue(SubSeq(s, 1, n)), rest |-> SubSeq(s, n + 1, Len(s))])

\* number(s, min, max) of chrono's format::scan: the value of the leading
\* digits of s (at most max of them) and the rest, or None with fewer than min
scan_number(s, min, max) == TakeDigits(s, min, LeadingDigits(s, max))

\* str::trim_left: the string without its leading white space
RECURSIVE trim_left(_)
trim_left(s) == IF s # <<>> /\ is_whitespace(Head(s)) THEN trim_left(Tail(s)) ELSE s

\* 0i64.checked_sub(v) of a scanned number
Negated(r) == IF r.some THEN Some([value |-> 0 - r.v.value, rest |-> r.v.rest]) ELSE None

\* a signed item with an explicit sign takes every digit that follows, any
\* other item takes between 1 and `width` digits
parse_signed(s, width, signed) ==
    IF signed /\ s # <<>> /\ Head(s) = "-" THEN Negated(scan_number(Tail(s), 1, Len(s)))
    ELSE IF signed /\ s # <<>> /\ Head(s) = "+" THEN scan_number(Tail(s), 1, Len(s))
    ELSE scan_number(s, 1, width)

\* a Numeric item of the format string: white space is skipped first
parse_numeric(s, width, signed) == parse_signed(trim_left(s), width, signed)

\* format::Parsed and the text still to parse; nothing is read after a failure
ParseStart(string) == [ok |-> TRUE, s |-> string, year |-> 0, month |-> 0, day |-> 0]

ParseFailed == [ok |-> FALSE, s |-> <<>>, year |-> 0, month |-> 0, day |-> 0]

\* Parsed::set_year / set_month / set_day with a scanned number
SetField(p, field, r) ==
    IF ~p.ok \/ ~r.some THEN ParseFailed
    ELSE [[p EXCEPT ![field] = r.v.value] EXCEPT !.s = r.v.rest]

\* Item::Numeric of the format string
numeric_item(p, field, width, signed) == SetField(p, field, parse_numeric(p.s, width, signed))

AfterLiteral(p, r) == IF ~p.ok \/ ~r.some THEN ParseFailed ELSE [p EXCEPT !.s = r.v]

\* Item::Literal of the format string
literal_item(p, literal) == AfterLiteral(p, strip_prefix(p.s, literal))

\* Parsed::to_naive_date once the items are through: no text may be left
to_naive_date(p) ==
    IF p.ok /\ p.s = <<>> THEN from_ymd_opt(p.year, p.month, p.day) ELSE None

\* NaiveDate::parse_from_str(string, "%Y-%m-%d")
parse_from_str(string) ==
    to_naive_date(
        numeric_item(
            literal_item(
                numeric_item(
                    literal_item(
                        numeric_item(ParseStart(string), "year", 4, TRUE),
                        <<"-">>),
                    "month", 2, FALSE),
                <<"-">>),
            "day", 2, FALSE))

\* -------------------------------------------------------------------- uuid

HexVal(c) ==
    IF IsDigit(c) THEN DigitVal(c)
    ELSE IF IndexOf(<<"a","b","c","d","e","f">>, c) > 0 THEN 9 + IndexOf(<<"a","b","c","d","e","f">>, c)
    ELSE IF IndexOf(<<"A","B","C","D","E","F">>, c) > 0 THEN 9 + IndexOf(<<"A","B","C","D","E","F">>, c)
    ELSE -1

URN_PREFIX == <<"u","r","n",":","u","u","i","d",":">>

\* positions of the group delimiters of the hyphenated form
HyphenAt == {9, 14, 19, 24}

StartsWithUrn(input) == strip_prefix(input, URN_PREFIX).some

IsHyphenated(input) ==
    /\ Len(input) = 36
    /\ \A i \in 1..36 : IF i \in HyphenAt THEN input[i] = "-" ELSE HexVal(input[i]) >= 0

IsSimple(input) == Len(input) = 32 /\ \A i \in 1..32 : HexVal(input[i]) >= 0

HexDigits(digits) == [i \in 1..32 |-> HexVal(digits[i])]

\* the text between the braces of a 38-character input, the text after the
\* "urn:uuid:" of a 45-character input, any other input as it is
Unwrapped(input) ==
    IF Len(input) = 45 /\ StartsWithUrn(input) THEN SubSeq(input, 10, 45)
    ELSE IF Len(input) = 38 /\ input[1] = "{" /\ input[38] = "}" THEN SubSeq(input, 2, 37)
    ELSE input

ParseGroups(input) ==
    IF IsHyphenated(input) \/ IsSimple(input)
    THEN Some(HexDigits(SelectSeq(input, LAMBDA c : c # "-")))
    ELSE None

(***************************************************************************)
(* Uuid::parse_str: a 45-character input that starts with "urn:uuid:"      *)
(* loses that prefix, a 38-character input in braces loses the braces      *)
(* (the braced form is read by uuid from 1.0 on); what is left must be 32  *)
(* hexadecimal digits, or 36 characters with '-' after 8, 12, 16 and 20    *)
(* digits.  The value is the sequence of its 32 hexadecimal digits.        *)
(***************************************************************************)
parse_str(input) == ParseGroups(Unwrapped(input))

\* Uuid::from_slice: sixteen bytes, each giving two hexadecimal digits
from_slice(bytes) ==
    IF Len(bytes) # 16 THEN None
    ELSE Some([i \in 1..32 |-> IF i % 2 = 1 THEN bytes[(i + 1) \div 2] \div 16
                                             ELSE bytes[i \div 2] % 16])

\* ------------------------------------------------------------------- serde

(***************************************************************************)
(* The values a self-describing format (serde_json, serde_cbor) hands to   *)
(* a Deserialize implementation.  A map keeps its entries in the order of  *)
(* the input; its keys are compared for equality only and are plain        *)
(* strings.  StrV is a text the format lends from its input buffer         *)
(* (visit_borrowed_str); TransientStrV is a text it cannot lend, a JSON    *)
(* string with an escape or a CBOR text of indefinite length (visit_str);  *)
(* BytesV is a CBOR byte string (visit_borrowed_bytes), which JSON does    *)
(* not have.  Eof is an input that ends, or is malformed, where a value    *)
(* is expected.                                                            *)
(***************************************************************************)
StrV(s) == [t |-> "str", str |-> s]

TransientStrV(s) == [t |-> "transient_str", str |-> s]

BytesV(b) == [t |-> "bytes", bytes |-> b]

IntV(hi, lo) == [t |-> "int", int |-> I64(hi, lo)]

SeqV(vs) == [t |-> "seq", seq |-> vs]

MapV(es) == [t |-> "map", map |-> es]

Null == [t |-> "null"]

Eof == [t |-> "eof"]

KV(k, v) == [k |-> k, v |-> v]

\* serde::de::Error: the message and, where the message names one, the field
SerdeError(msg, field) == [msg |-> msg, field |-> field]

invalid_type(value) ==
    IF value.t = "eof" THEN Err(SerdeError("syntax", "")) ELSE Err(SerdeError("invalid type", ""))

custom(msg) == Err(SerdeError(msg, ""))

\* str::from_utf8(v).map_err(|_| Error::invalid_value(Unexpected::Bytes(v), ..))
TextOrError(text) == IF text.some THEN Ok(text.v) ELSE Err(SerdeError("invalid value", ""))

\* <&str as Deserialize>::deserialize: the visitor takes a borrowed string and
\* borrowed bytes that are UTF-8
deserialize_borrowed_str(value) ==
    CASE value.t = "str" -> Ok(value.str)
      [] value.t = "bytes" -> TextOrError(from_utf8(value.bytes))
      [] OTHER -> invalid_type(value)

\* <String as Deserialize>::deserialize: the visitor takes any string and
\* bytes that are UTF-8
deserialize_string(value) ==
    CASE value.t \in {"str", "transient_str"} -> Ok(value.str)
      [] value.t = "bytes" -> TextOrError(from_utf8(value.bytes))
      [] OTHER -> invalid_type(value)

\* <i64 as Deserialize>::deserialize
deserialize_i64(value) ==
    IF value.t = "int" THEN Ok(value.int) ELSE invalid_type(value)

\* the first position of a sequence of results that is not Ok, 0 when all are
FirstFailure(results) ==
    LET bad == {i \in 1..Len(results) : results[i].kind # "Ok"} IN
    IF bad = {} THEN 0 ELSE CHOOSE i \in bad : \A j \in bad : i <= j

\* <Vec<&str> as Deserialize>::deserialize: every element in turn
deserialize_vec_str(value) ==
    IF value.t # "seq" THEN invalid_type(value)
    ELSE LET results == [i \in 1..Len(value.seq) |-> deserialize_borrowed_str(value.seq[i])]
             f == FirstFailure(results)
         IN IF f > 0 THEN results[f]
            ELSE Ok([i \in 1..Len(value.seq) |-> results[i].val])

\* <(&str, &str) as Deserialize>::deserialize: exactly two elements
deserialize_str_pair(value) ==
    IF value.t # "seq" THEN invalid_type(value)
    ELSE LET n == Len(value.seq)
             results == [i \in 1..Min(n, 2) |-> deserialize_borrowed_str(value.seq[i])]
             f == FirstFailure(results)
         IN IF f > 0 THEN results[f]
            ELSE IF n < 2 THEN Err(SerdeError("invalid length", ""))
            ELSE IF n > 2 THEN Err(SerdeError("trailing elements", ""))
            ELSE Ok(<<results[1].val, results[2].val>>)

(***************************************************************************)
(* #[derive(Deserialize)] on a struct with the serde names `fields` (in    *)
(* declaration order).  From a map: the entries are visited in input       *)
(* order; an unknown key is skipped, a key seen before is an error, a      *)
(* value that does not decode ends the visit with its outcome; after the   *)
(* last entry the first field that never appeared is an error.  From a     *)
(* sequence: the elements are the fields in declaration order.             *)
(* `decoded` holds, for each item of FieldItems, the outcome of the field  *)
(* decoder of the struct on it.  The result maps each serde name to its    *)
(* decoded value.                                                          *)
(***************************************************************************)
FieldItems(value, fields) ==
    IF value.t = "map" THEN value.map
    ELSE IF value.t = "seq"
         THEN [i \in 1..Min(Len(value.seq), Len(fields)) |-> KV(fields[i], value.seq[i])]
    ELSE <<>>

\* the input ends somewhere inside the value
RECURSIVE HasEof(_)
HasEof(value) ==
    CASE value.t = "eof" -> TRUE
      [] value.t = "seq" -> \E i \in 1..Len(value.seq) : HasEof(value.seq[i])
      [] value.t = "map" -> \E i \in 1..Len(value.map) : HasEof(value.map[i].v)
      [] OTHER -> FALSE

\* serde::de::IgnoredAny: the value of a key that no field has is read to its
\* end and dropped
ignored_any(value) == IF HasEof(value) THEN invalid_type(Eof) ELSE Ok(0)

visit_map(entries, fields, decoded) ==
    LET known == {fields[i] : i \in 1..Len(fields)}
        status == [i \in 1..Len(entries) |->
            IF entries[i].k \notin known THEN ignored_any(entries[i].v)
            ELSE IF \E j \in 1..(i - 1) : entries[j].k = entries[i].k
                 THEN Err(SerdeError("duplicate field", entries[i].k))
            ELSE decoded[i]]
        f == FirstFailure(status)
        missing == {i \in 1..Len(fields) : \A j \in 1..Len(entries) : entries[j].k # fields[i]}
    IN IF f > 0 THEN status[f]
       ELSE IF missing # {}
            THEN Err(SerdeError("missing field", fields[CHOOSE i \in missing : \A j \in missing : i <= j]))
       ELSE Ok([name \in known |-> status[CHOOSE i \in 1..Len(entries) : entries[i].k = name].val])

visit_seq(elems, fields, decoded) ==
    LET n == Min(Len(elems), Len(fields))
        f == FirstFailure(decoded)
    IN IF f > 0 THEN decoded[f]
       ELSE IF Len(elems) < Len(fields) THEN Err(SerdeError("invalid length", ""))
       ELSE IF Len(elems) > Len(fields) THEN Err(SerdeError("trailing elements", ""))
       ELSE Ok([name \in {fields[i] : i \in 1..n} |->
                   decoded[CHOOSE i \in 1..n : fields[i] = name].val])

deserialize_struct(value, fields, decoded) ==
    IF value.t = "map" THEN visit_map(value.map, fields, decoded)
    ELSE IF value.t = "seq" THEN visit_seq(value.seq, fields, decoded)
    ELSE invalid_type(value)

\* the error of Uuid::parse_str as a serde error
UuidOrError(u) == IF u.some THEN Ok(u.v) ELSE custom("UUID parsing failed")

(***************************************************************************)
(* <Uuid as Deserialize>::deserialize.  In a human-readable format         *)
(* (serde_json) the visitor is handed to deserialize_str and takes a       *)
(* string, which is parsed, or sixteen bytes; in any other format          *)
(* (serde_cbor) it is handed to deserialize_bytes and takes sixteen bytes  *)
(* only.                                                                   *)
(***************************************************************************)
deserialize_uuid(human_readable, value) ==
    CASE value.t = "bytes" -> UuidOrError(from_slice(value.bytes))
      [] human_readable /\ value.t \in {"str", "transient_str"} -> UuidOrError(parse_str(value.str))
      [] OTHER -> invalid_type(value)

\* ----------------------------------------------------------------- pass.rs

\* the subject types a caller can ask for
SubjectTypes == {"String", "PublicCovidPass"}

PUBLIC_COVID_PASS == <<"P","u","b","l","i","c","C","o","v","i","d","P","a","s","s">>

\* Pass::CREDENTIAL_TYPE of the subject types that implement Pass
CREDENTIAL_TYPE(T) == IF T = "PublicCovidPass" THEN Some(PUBLIC_COVID_PASS) ELSE None

\* ------------------------------------------------------ public_covid_pass.rs

\* .map_err(|_| D::Error::custom(PublicCovidPassError::InvalidDateOfBirth))
DateOrError(date) == IF date.some THEN Ok(date.v) ELSE custom("InvalidDateOfBirth")

\* what follows `let string: &str = Deserialize::deserialize(deserializer)?`
ParseDateOf(string) ==
    IF string.kind # "Ok" THEN string ELSE DateOrError(parse_from_str(string.val))

deserialize_iso_8601_date(value) == ParseDateOf(deserialize_borrowed_str(value))

PublicCovidPassFields == <<"givenName", "familyName", "dob">>

PublicCovidPassField(name, value) ==
    CASE name = "givenName" -> deserialize_borrowed_str(value)
      [] name = "familyName" -> deserialize_borrowed_str(value)
      [] name = "dob" -> deserialize_iso_8601_date(value)
      [] OTHER -> ignored_any(value)

\* the outcome of the field decoder on each item
PublicCovidPassDecoded(items) ==
    [i \in 1..Len(items) |-> PublicCovidPassField(items[i].k, items[i].v)]

\* the struct built from the decoded fields
PublicCovidPassBuild(r) ==
    IF r.kind # "Ok" THEN r
    ELSE Ok([given_name |-> r.val["givenName"],
             family_name |-> r.val["familyName"],
             date_of_birth |-> r.val["dob"]])

\* <PublicCovidPass as Deserialize>::deserialize
PublicCovidPass_deserialize(value) ==
    PublicCovidPassBuild(
        deserialize_struct(value, PublicCovidPassFields,
                           PublicCovidPassDecoded(FieldItems(value, PublicCovidPassFields))))

\* -------------------------------------------------------------------- cwt.rs

DID_WEB_PREFIX == <<"d","i","d",":","w","e","b",":">>

\* DecentralizedIdentifierVisitor::visit_borrowed_str
visit_borrowed_str(string) ==
    LET identifier == strip_prefix(string, DID_WEB_PREFIX) IN
    IF identifier.some THEN Ok([variant |-> "Web", id |-> identifier.v])
    ELSE custom("invalid DID")

\* <DecentralizedIdentifier as Deserialize>::deserialize: deserialize_str
\* with the visitor, which visits nothing but a borrowed string; a string that
\* is not borrowed, and bytes, get the visitor's default, an error
DecentralizedIdentifier_deserialize(value) ==
    IF value.t = "str" THEN visit_borrowed_str(value.str) ELSE invalid_type(value)

\* NaiveDateTime::from_timestamp panics where from_timestamp_opt is None
TimestampOrPanic(t) == IF t.some THEN Ok(t.v) ELSE Panic

\* what follows `let epoch_seconds = i64::deserialize(deserializer)?`
FromEpochSeconds(epoch_seconds) ==
    IF epoch_seconds.kind # "Ok" THEN epoch_seconds
    ELSE TimestampOrPanic(from_timestamp_opt(epoch_seconds.val))

deserialize_numeric_date(value) == FromEpochSeconds(deserialize_i64(value))

\* <T as Deserialize>::deserialize for the subject type the caller chose
Subject_deserialize(T, value) ==
    IF T = "PublicCovidPass" THEN PublicCovidPass_deserialize(value)
    ELSE deserialize_string(value)

VerifiableCredentialFields == <<"@context", "type", "version", "credentialSubject">>

VerifiableCredentialField(T, name, value) ==
    CASE name = "@context" -> deserialize_vec_str(value)
      [] name = "type" -> deserialize_str_pair(value)
      [] name = "version" -> deserialize_borrowed_str(value)
      [] name = "credentialSubject" -> Subject_deserialize(T, value)
      [] OTHER -> ignored_any(value)

VerifiableCredentialDecoded(T, items) ==
    [i \in 1..Len(items) |-> VerifiableCredentialField(T, items[i].k, items[i].v)]

VerifiableCredentialBuild(r) ==
    IF r.kind # "Ok" THEN r
    ELSE Ok([context |-> r.val["@context"],
             _type |-> r.val["type"],
             version |-> r.val["version"],
             credential_subject |-> r.val["credentialSubject"]])

\* <VerifiableCredential<T> as Deserialize>::deserialize
VerifiableCredential_deserialize(T, value) ==
    VerifiableCredentialBuild(
        deserialize_struct(value, VerifiableCredentialFields,
                           VerifiableCredentialDecoded(T, FieldItems(value, VerifiableCredentialFields))))

CwtPayloadFields == <<"cti", "iss", "nbf", "exp", "vc">>

CwtPayloadField(T, human_readable, name, value) ==
    CASE name = "cti" -> deserialize_uuid(human_readable, value)
      [] name = "iss" -> DecentralizedIdentifier_deserialize(value)
      [] name = "nbf" -> deserialize_numeric_date(value)
      [] name = "exp" -> deserialize_numeric_date(value)
      [] name = "vc" -> VerifiableCredential_deserialize(T, value)
      [] OTHER -> ignored_any(value)

CwtPayloadDecoded(T, human_readable, items) ==
    [i \in 1..Len(items) |-> CwtPayloadField(T, human_readable, items[i].k, items[i].v)]

CwtPayloadBuild(r) ==
    IF r.kind # "Ok" THEN r
    ELSE Ok([cwt_token_id |-> r.val["cti"],
             issuer |-> r.val["iss"],
             not_before |-> r.val["nbf"],
             expiry |-> r.val["exp"],
             verifiable_credential |-> r.val["vc"]])

\* <CwtPayload<T> as Deserialize>::deserialize, human_readable being what
\* the deserializer says of its format (Deserializer::is_human_readable)
CwtPayload_deserialize(T, human_readable, value) ==
    CwtPayloadBuild(
        deserialize_struct(value, CwtPayloadFields,
                           CwtPayloadDecoded(T, human_readable,
                                             FieldItems(value, CwtPayloadFields))))

\* Result::unwrap: an Ok stays, an Err makes the thread panic
unwrap(r) == IF r.kind = "Ok" THEN r ELSE Panic

\* CwtPayload::from_barcode, `value` being the data item that serde_cbor reads
\* from the bytes the barcode holds: Ok(CwtPayload::deserialize(..).unwrap()),
\* serde_cbor being no human-readable format
from_barcode(T, value) == unwrap(CwtPayload_deserialize(T, FALSE, value))

\* ------------------------------------------------------------------ inputs

\* characters a drawn body is made of: in the alphabet (upper, digit), lower
\* case, padding, a digit outside the alphabet, a byte below '0'
BodyChars == {"A", "M", "7", "a", "=", "1", "!"}

RECURSIVE SeqsUpTo(_, _)
SeqsUpTo(S, n) ==
    IF n = 0 THEN {<<>>}
    ELSE LET shorter == SeqsUpTo(S, n - 1) IN
         shorter \cup {Append(s, c) : s \in {t \in shorter : Len(t) = n - 1}, c \in S}

Bodies == SeqsUpTo(BodyChars, MaxBody)

\* what comes before the body: the right envelope and wrong ones
Heads ==
    { <<"N","Z","C","P",":","/","1","/">>,
      <<"N","Z","C","P",":","/","2","/">>,
      <<"N","Z","C","P",":","/","1","0","/">>,
      <<"N","Z","C","P",":","/","1">>,
      <<"N","Z","C","P",":","/">>,
      <<"N","Z","C","P",":","/","/">>,
      <<"N","Z","C","P",":","/","1","1","/">>,
      <<"N","Z","C","P",":">>,
      <<"N","Z","C","P","/","1","/">>,
      <<"n","z","c","p",":","/","1","/">>,
      <<" ","N","Z","C","P",":","/","1","/">>,
      <<"1","/">>,
      <<>> }

BarcodeStrings == {h \o b : h \in Heads, b \in Bodies}

\* the texts of the fixtures of the tests in cwt.rs and public_covid_pass.rs
UUID_TEXT == <<"c","c","5","9","9","d","0","4","-","0","d","5","1","-","4","f","7","e","-","8","e","f","5","-","d","7","b","5","f","8","4","6","1","c","5","f">>

EXAMPLE_NZ == <<"e","x","a","m","p","l","e",".","n","z">>

VERIFIABLE_CREDENTIAL == <<"V","e","r","i","f","i","a","b","l","e","C","r","e","d","e","n","t","i","a","l">>

SOME_OTHER_PASS == <<"S","o","m","e","O","t","h","e","r","P","a","s","s">>

VERSION_1_0_0 == <<"1",".","0",".","0">>

HELLOWORLD == <<"h","e","l","l","o","w","o","r","l","d">>

JOHN_ANDREW == <<"J","o","h","n"," ","A","n","d","r","e","w">>

DOE == <<"D","o","e">>

CONTEXT_W3 == <<"h","t","t","p","s",":","/","/","w","w","w",".","w","3",".","o","r","g","/","2","0","1","8","/","c","r","e","d","e","n","t","i","a","l","s","/","v","1">>

CONTEXT_NZCP == <<"h","t","t","p","s",":","/","/","n","z","c","p",".","c","o","v","i","d","1","9",".","h","e","a","l","t","h",".","n","z","/","c","o","n","t","e","x","t","s","/","v","1">>

DobTexts ==
    LET
        YearTexts ==
            { <<"1","9","7","9">>, <<"1","9","8","0">>, <<"1","9","0","0">>, <<"2","0","0","0">>, <<"9","7","9">>, <<"7","9">>, <<"1","9","7","9","0">>,
              <<"+","1","9","7","9">>, <<"-","1","9","7","9">>, <<" ","1","9","7","9">>, <<"1","9","7","a">>, <<>> }
        SepTexts == { <<"-">>, <<"/">>, <<>> }
        MonthTexts == { <<"0","2">>, <<"0","4">>, <<"1","2">>, <<"1","3">>, <<"0","0">>, <<"2">>, <<"4">>, <<" ","4">>, <<>> }
        DayTexts == { <<"1","4">>, <<"2","9">>, <<"3","0">>, <<"3","1">>, <<"0","0">>, <<"1">>, <<"3","2">>, <<"0","1","4">>, <<"1","4"," ">>, <<>> }
    IN
    {y \o s1 \o m \o s2 \o d :
                    y \in YearTexts, s1 \in SepTexts, m \in MonthTexts, s2 \in SepTexts, d \in DayTexts}

\* "1979-04-14" as bytes
DOB_BYTES == <<49, 57, 55, 57, 45, 48, 52, 45, 49, 52>>

DobValues ==
    {StrV(x) : x \in DobTexts}
    \cup {StrV(<<w>> \o <<"1","9","7","9","-","0","4","-","1","4">>) : w \in {"\t", "\n", CharOf(160), CharOf(8195), "_"}}
    \cup {StrV(<<"1","9","7","9","-",w,"4","-","1","4">>) : w \in {"\t", CharOf(8195)}}
    \cup {TransientStrV(<<"1","9","7","9","-","0","4","-","1","4">>),
          BytesV(DOB_BYTES), BytesV(<<49, 255>>), BytesV(<<194, 160>> \o DOB_BYTES),
          Null, IntV(0, 19790414), Eof}

DidValues ==
    LET
        DidHeads ==
            { <<"d","i","d",":","w","e","b",":">>, <<"d","i","d",":","w","e","b">>, <<"d","i","d",":","k","e","y",":">>, <<"D","I","D",":","W","E","B",":">>, <<" ","d","i","d",":","w","e","b",":">>, <<"w","e","b",":">>, <<>> }
        DidRests == { <<>>, EXAMPLE_NZ, <<"d","i","d",":","w","e","b",":">>, <<":">> }
    IN
    {StrV(h \o r) : h \in DidHeads, r \in DidRests}
        \cup {TransientStrV(h \o r) : h \in DidHeads, r \in DidRests}
        \cup {BytesV(<<100, 105, 100, 58, 119, 101, 98, 58>>), Null, IntV(0, 7), Eof}

NumericDateValues ==
    LET
        I64Values ==
            { I64(0, 1516239022), I64(0, 1516239922), I64(0, 0), I64(0, 86399), I64(0, 86400),
              I64(-1, 2147483647), I64(-1, 0), I64(0, 951782400), I64(0, 2147483647),
              I64(1, 0), I64(29, 1234567), I64(-30, 7), I64(3000, 0), I64(-3000, 0),
              I64(3823, 436890495), I64(3823, 436890496), I64(-3882, 1930292736), I64(-3882, 1930292735),
              I64(3823, 468426495), I64(-3882, 1898670336),
              I64(4096, 0), I64(-4096, 0), I64(5000, 99), I64(-5000, 99),
              I64(79999, 0), I64(-79999, 0), I64(90000, 0), I64(-90000, 0),
              I64(2147483647, 2147483647), I64(-2147483647, 0) }
    IN
    {[t |-> "int", int |-> n] : n \in I64Values} \cup {Null, StrV(<<"0">>), BytesV(<<0>>), Eof}

\* the bytes of the UUID that UUID_TEXT spells
UUID_BYTES == <<204, 89, 157, 4, 13, 81, 79, 126, 142, 245, 215, 181, 248, 70, 28, 95>>

\* cti values of either kind of format; a byte string only where the format
\* has byte strings
UuidValues ==
    LET
        UuidTexts ==
            LET simple == SelectSeq(UUID_TEXT, LAMBDA c : c # "-") IN
            { UUID_TEXT, URN_PREFIX \o UUID_TEXT, <<"{">> \o UUID_TEXT \o <<"}">>,
              [i \in 1..36 |-> to_ascii_uppercase(UUID_TEXT[i])],
              simple, URN_PREFIX \o simple, <<"{">> \o simple \o <<"}">>,
              <<"g">> \o Tail(UUID_TEXT), SubSeq(UUID_TEXT, 1, 35),
              SubSeq(UUID_TEXT, 1, 8) \o <<"0">> \o SubSeq(UUID_TEXT, 10, 36),
              <<"{">> \o UUID_TEXT, <<>> }
    IN
    {[human_readable |-> h, value |-> v] :
            h \in BOOLEAN,
            v \in {StrV(x) : x \in UuidTexts} \cup {TransientStrV(x) : x \in UuidTexts}
                  \cup {Null, IntV(0, 7), SeqV(<<>>), Eof}}
        \cup {[human_readable |-> FALSE, value |-> BytesV(b)] :
                b \in {UUID_BYTES, SubSeq(UUID_BYTES, 1, 15), UUID_BYTES \o <<0>>, <<>>}}

\* every order of the entries of a map
RECURSIVE AllOrders(_)
AllOrders(entries) ==
    IF Len(entries) <= 1 THEN {entries}
    ELSE UNION {{<<entries[i]>> \o p :
                    p \in AllOrders(SubSeq(entries, 1, i - 1) \o SubSeq(entries, i + 1, Len(entries)))} :
                i \in 1..Len(entries)}

\* a few orders of the entries of a map: as given, reversed, rotated
Orders(entries) ==
    { entries,
      [i \in 1..Len(entries) |-> entries[Len(entries) + 1 - i]],
      [i \in 1..Len(entries) |-> entries[(i % Len(entries)) + 1]] }

\* the entries without one of them, with one of them twice, with a key no
\* field has
Reshaped(entries) ==
    {SubSeq(entries, 1, i - 1) \o SubSeq(entries, i + 1, Len(entries)) : i \in 1..Len(entries)}
    \cup {Append(entries, entries[i]) : i \in 1..Len(entries)}
    \cup {<<KV("unknown", Null)>> \o entries, Append(entries, KV("unknown", StrV(<<"x">>))),
          Append(entries, KV("unknown", SeqV(<<StrV(<<"x">>), Eof>>))),
          <<KV("unknown", MapV(<<KV("x", Eof)>>))>> \o entries}

\* credentialSubject values for PublicCovidPass
DobSample ==
    { StrV(<<"1","9","7","9","-","0","4","-","1","4">>), StrV(<<"1","9","7","9","-","0","2","-","3","0">>),
      StrV(<<"1","9","7","9","-","4","-","1","4">>), Null }

PassEntries == {<<KV("givenName", g), KV("familyName", f), KV("dob", d)>> :
                   g \in {StrV(JOHN_ANDREW), TransientStrV(JOHN_ANDREW), Null},
                   f \in {StrV(DOE), BytesV(<<68, 111, 101>>), IntV(0, 1)}, d \in DobSample}

PassFixture == <<KV("givenName", StrV(JOHN_ANDREW)), KV("familyName", StrV(DOE)),
                 KV("dob", StrV(<<"1","9","7","9","-","0","4","-","1","4">>))>>

PassValues ==
    {MapV(o) : o \in UNION {AllOrders(e) : e \in PassEntries}}
    \cup {MapV(e) : e \in Reshaped(PassFixture)}
    \cup {SeqV(<<e[1].v, e[2].v, e[3].v>>) : e \in PassEntries}
    \cup {SeqV(<<>>), SeqV(<<StrV(JOHN_ANDREW), StrV(DOE)>>), MapV(<<>>), Null, StrV(DOE), Eof}

SubjectFixture(T) == IF T = "PublicCovidPass" THEN MapV(PassFixture) ELSE StrV(HELLOWORLD)

SubjectValues(T) ==
    IF T = "PublicCovidPass"
    THEN {MapV(PassFixture), MapV(SubSeq(PassFixture, 1, 2)),
          MapV(<<PassFixture[1], PassFixture[2], KV("dob", StrV(<<"1","9","7","9","-","0","2","-","3","0">>))>>),
          MapV(<<PassFixture[1], PassFixture[2], KV("dob", StrV(<<"1","9","7","9","-","4","-","1","4">>))>>),
          StrV(HELLOWORLD)}
    ELSE {StrV(HELLOWORLD), TransientStrV(HELLOWORLD), StrV(<<>>), Null, MapV(PassFixture)}

VcEntries(T) ==
    LET
        ContextValues ==
            { SeqV(<<StrV(CONTEXT_W3), StrV(CONTEXT_NZCP)>>), SeqV(<<StrV(CONTEXT_W3)>>),
              SeqV(<<StrV(CONTEXT_NZCP), StrV(CONTEXT_W3)>>), SeqV(<<>>),
              SeqV(<<StrV(CONTEXT_W3), Null>>), StrV(CONTEXT_W3), Null }
        TypeValues ==
            { SeqV(<<StrV(VERIFIABLE_CREDENTIAL), StrV(PUBLIC_COVID_PASS)>>),
              SeqV(<<StrV(VERIFIABLE_CREDENTIAL), StrV(SOME_OTHER_PASS)>>),
              SeqV(<<StrV(PUBLIC_COVID_PASS), StrV(VERIFIABLE_CREDENTIAL)>>),
              SeqV(<<StrV(VERIFIABLE_CREDENTIAL)>>), SeqV(<<>>),
              SeqV(<<StrV(VERIFIABLE_CREDENTIAL), StrV(PUBLIC_COVID_PASS), StrV(PUBLIC_COVID_PASS)>>),
              SeqV(<<StrV(VERIFIABLE_CREDENTIAL), Null>>), StrV(PUBLIC_COVID_PASS) }
        VersionValues == { StrV(VERSION_1_0_0), TransientStrV(VERSION_1_0_0), StrV(<<>>), IntV(0, 1) }
    IN
    {<<KV("@context", c), KV("version", v), KV("type", ty), KV("credentialSubject", s)>> :
            c \in ContextValues, v \in VersionValues, ty \in TypeValues, s \in SubjectValues(T)}

VcFixture(T) ==
    <<KV("@context", SeqV(<<StrV(CONTEXT_W3), StrV(CONTEXT_NZCP)>>)),
      KV("version", StrV(VERSION_1_0_0)),
      KV("type", SeqV(<<StrV(VERIFIABLE_CREDENTIAL), StrV(PUBLIC_COVID_PASS)>>)),
      KV("credentialSubject", SubjectFixture(T))>>

VcValues(T) ==
    {MapV(o) : o \in UNION {Orders(e) : e \in VcEntries(T)}}
    \cup {MapV(e) : e \in Reshaped(VcFixture(T))}
    \cup {SeqV(<<e[1].v, e[3].v, e[2].v, e[4].v>>) : e \in {VcFixture(T)}}
    \cup {SeqV(<<>>), MapV(<<>>), Null, Eof}

\* the vc values drawn inside a whole payload
VcSample(T) ==
    { MapV(VcFixture(T)),
      MapV(<<VcFixture(T)[1], VcFixture(T)[2],
             KV("type", SeqV(<<StrV(VERIFIABLE_CREDENTIAL), StrV(SOME_OTHER_PASS)>>)),
             VcFixture(T)[4]>>),
      MapV(<<KV("@context", SeqV(<<>>)), VcFixture(T)[2], VcFixture(T)[3], VcFixture(T)[4]>>),
      MapV(SubSeq(VcFixture(T), 1, 3)) }

CwtEntries(T, human_readable) ==
    LET
        CtiSample ==
            { StrV(URN_PREFIX \o UUID_TEXT), StrV(<<"g">> \o Tail(UUID_TEXT)), Null }
            \cup (IF human_readable THEN {StrV(UUID_TEXT), TransientStrV(UUID_TEXT)}
                  ELSE {BytesV(UUID_BYTES), BytesV(SubSeq(UUID_BYTES, 1, 15))})
        IssSample ==
            { StrV(DID_WEB_PREFIX \o EXAMPLE_NZ), StrV(DID_WEB_PREFIX), TransientStrV(DID_WEB_PREFIX \o EXAMPLE_NZ),
              StrV(<<"d","i","d",":","k","e","y",":","z","6","M","k">>), Null }
        NbfSample == { IntV(0, 1516239022), IntV(0, 0), IntV(-1, 2147483647), IntV(4096, 0), StrV(<<"0">>) }
        ExpSample == { IntV(0, 1516239922), IntV(-4096, 0), Null }
    IN
    {<<KV("iss", i), KV("nbf", n), KV("exp", e), KV("cti", c), KV("vc", vc)>> :
            i \in IssSample, n \in NbfSample, e \in ExpSample, c \in CtiSample,
            vc \in VcSample(T)}

\* the record of the test deserialize_json of cwt.rs
CwtFixture(T) ==
    <<KV("iss", StrV(DID_WEB_PREFIX \o EXAMPLE_NZ)), KV("nbf", IntV(0, 1516239022)),
      KV("exp", IntV(0, 1516239922)), KV("cti", StrV(URN_PREFIX \o UUID_TEXT)),
      KV("vc", MapV(VcFixture(T)))>>

\* the same record with the cti as the sixteen bytes of the UUID
CwtBytesFixture(T) ==
    <<KV("iss", StrV(DID_WEB_PREFIX \o EXAMPLE_NZ)), KV("nbf", IntV(0, 1516239022)),
      KV("exp", IntV(0, 1516239922)), KV("cti", BytesV(UUID_BYTES)),
      KV("vc", MapV(VcFixture(T)))>>

CwtValues(T, human_readable) ==
    {MapV(o) : o \in UNION {Orders(e) : e \in CwtEntries(T, human_readable)}}
    \cup {MapV(e) : e \in Reshaped(CwtFixture(T))}
    \cup (IF human_readable THEN {} ELSE {MapV(e) : e \in Reshaped(CwtBytesFixture(T))})
    \cup {SeqV(<<e[4].v, e[1].v, e[2].v, e[3].v, e[5].v>>) : e \in {CwtFixture(T), CwtBytesFixture(T)}}
    \cup {SeqV(<<>>), MapV(<<>>), Null, StrV(HELLOWORLD), Eof}

\* a call that names its subject type: the type and the value; from_barcode
\* reads CBOR, CwtPayload::deserialize reads what its deserializer reads
BarcodeArgs == UNION {{[T |-> T, value |-> v] : v \in CwtValues(T, FALSE)} : T \in SubjectTypes}

CwtArgs ==
    UNION {{[T |-> T, human_readable |-> h, value |-> v] : v \in CwtValues(T, h)} :
              T \in SubjectTypes, h \in BOOLEAN}

VcArgs == UNION {{[T |-> T, value |-> v] : v \in VcValues(T)} : T \in SubjectTypes}

Calls ==
    { "from_str", "from_barcode", "CwtPayload::deserialize", "VerifiableCredential::deserialize",
      "DecentralizedIdentifier::deserialize", "deserialize_numeric_date",
      "Uuid::deserialize", "PublicCovidPass::deserialize", "deserialize_iso_8601_date" }

ArgsOf(c) ==
    CASE c = "from_str" -> BarcodeStrings
      [] c = "from_barcode" -> BarcodeArgs
      [] c = "CwtPayload::deserialize" -> CwtArgs
      [] c = "VerifiableCredential::deserialize" -> VcArgs
      [] c = "DecentralizedIdentifier::deserialize" -> DidValues
      [] c = "deserialize_numeric_date" -> NumericDateValues
      [] c = "Uuid::deserialize" -> UuidValues
      [] c = "PublicCovidPass::deserialize" -> PassValues
      [] c = "deserialize_iso_8601_date" -> DobValues

\* --------------------------------------------------------------- behaviour

Init ==
    /\ pc = "called"
    /\ \E c \in Calls : call = c /\ arg \in ArgsOf(c)
    /\ ret = None

Return(r) ==
    /\ ret' = r
    /\ pc' = "returned"
    /\ UNCHANGED <<call, arg>>

FromStr ==
    /\ pc = "called" /\ call = "from_str"
    /\ Return(from_str(arg))

FromBarcode ==
    /\ pc = "called" /\ call = "from_barcode"
    /\ Return(from_barcode(arg.T, arg.value))

DeserializeCwtPayload ==
    /\ pc = "called" /\ call = "CwtPayload::deserialize"
    /\ Return(CwtPayload_deserialize(arg.T, arg.human_readable, arg.value))

DeserializeVerifiableCredential ==
    /\ pc = "called" /\ call = "VerifiableCredential::deserialize"
    /\ Return(VerifiableCredential_deserialize(arg.T, arg.value))

DeserializeDecentralizedIdentifier ==
    /\ pc = "called" /\ call = "DecentralizedIdentifier::deserialize"
    /\ Return(DecentralizedIdentifier_deserialize(arg))

DeserializeNumericDate ==
    /\ pc = "called" /\ call = "deserialize_numeric_date"
    /\ Return(deserialize_numeric_date(arg))

DeserializeUuid ==
    /\ pc = "called" /\ call = "Uuid::deserialize"
    /\ Return(deserialize_uuid(arg.human_readable, arg.value))

DeserializePublicCovidPass ==
    /\ pc = "called" /\ call = "PublicCovidPass::deserialize"
    /\ Return(PublicCovidPass_deserialize(arg))

DeserializeIso8601Date ==
    /\ pc = "called" /\ call = "deserialize_iso_8601_date"
    /\ Return(deserialize_iso_8601_date(arg))

Next ==
    \/ FromStr
    \/ FromBarcode
    \/ DeserializeCwtPayload
    \/ DeserializeVerifiableCredential
    \/ DeserializeDecentralizedIdentifier
    \/ DeserializeNumericDate
    \/ DeserializeUuid
    \/ DeserializePublicCovidPass
    \/ DeserializeIso8601Date

Spec == Init /\ [][Next]_vars

\* ================================================================== claims

Returned(c) == pc = "returned" /\ call = c

StartsWith(s, p) == Len(s) >= Len(p) /\ \A i \in 1..Len(p) : s[i] = p[i]

Drop(s, n) == [i \in 1..(Len(s) - n) |-> s[i + n]]

\* the value is a string, lent by the format or not
IsText(value) == value.t \in {"str", "transient_str"}

\* ------------------------------------------------------------------- C2

\* C2: a string that does not begin with "NZCP:/" makes QrBarcode::from_str
\* fail with MissingNzcpPrefix, whatever else it contains.
C2_MissingPrefix ==
    (Returned("from_str") /\ ~StartsWith(arg, <<"N","Z","C","P",":","/">>))
        => (ret.kind = "Err" /\ ret.err = "MissingNzcpPrefix")

\* a string without the prefix, with the right version segment and a byte no
\* base-32 text holds, was rejected for its prefix
C2_Witness ==
    /\ Returned("from_str")
    /\ StartsWith(arg, <<"N","Z","C","P","/","1","/">>)
    /\ \E i \in 1..Len(arg) : arg[i] = "!"
    /\ ret.kind = "Err" /\ ret.err = "MissingNzcpPrefix"

\* ------------------------------------------------------------------- C3

\* C3: a string that begins with "NZCP:/" and does not go on with "1/" makes
\* QrBarcode::from_str fail with InvalidVersion, whatever the body is.
C3_InvalidVersion ==
    (/\ Returned("from_str")
     /\ StartsWith(arg, <<"N","Z","C","P",":","/">>)
     /\ ~(Len(arg) >= 8 /\ arg[7] = "1" /\ arg[8] = "/"))
        => (ret.kind = "Err" /\ ret.err = "InvalidVersion")

\* "NZCP:/10/" followed by well-formed base-32 text was rejected for its version
C3_Witness ==
    /\ Returned("from_str")
    /\ StartsWith(arg, <<"N","Z","C","P",":","/","1","0","/">>)
    /\ Len(arg) = 11 /\ arg[10] = "M" /\ arg[11] = "A"
    /\ ret.kind = "Err" /\ ret.err = "InvalidVersion"

\* ------------------------------------------------------------------- C4

\* the unpadded RFC 4648 alphabet and the value of each of its characters
STANDARD_ALPHABET == UPPER \o <<"2","3","4","5","6","7">>

\* bit n (from 0, the most significant first) of the 5-bit values of the body
BodyBit(body, n) ==
    ((IndexOf(STANDARD_ALPHABET, body[(n \div 5) + 1]) - 1) \div (2 ^ (4 - (n % 5)))) % 2

\* the bytes that the 5-bit values of the body spell, eight bits at a time
ReferenceBytes(body) ==
    [k \in 1..((Len(body) * 5) \div 8) |->
        BodyBit(body, 8 * (k - 1)) * 128 + BodyBit(body, 8 * (k - 1) + 1) * 64
        + BodyBit(body, 8 * (k - 1) + 2) * 32 + BodyBit(body, 8 * (k - 1) + 3) * 16
        + BodyBit(body, 8 * (k - 1) + 4) * 8 + BodyBit(body, 8 * (k - 1) + 5) * 4
        + BodyBit(body, 8 * (k - 1) + 6) * 2 + BodyBit(body, 8 * (k - 1) + 7)]

\* unpadded base-32 text of 1, 3 or 6 characters beyond whole groups of eight
\* encodes no whole number of bytes
InvalidGrouping(body) == (Len(body) % 8) \in {1, 3, 6}

\* C4: after "NZCP:/1/", a body with a character outside A-Z, 2-7 or with an
\* invalid grouping gives InvalidBase32; any other body gives the bytes that
\* it encodes.
C4_Base32Body ==
    (Returned("from_str") /\ StartsWith(arg, <<"N","Z","C","P",":","/","1","/">>))
        => LET body == Drop(arg, 8) IN
           IF \/ \E i \in 1..Len(body) : IndexOf(STANDARD_ALPHABET, body[i]) = 0
              \/ InvalidGrouping(body)
           THEN ret.kind = "Err" /\ ret.err = "InvalidBase32"
           ELSE ret.kind = "Ok" /\ ret.val = ReferenceBytes(body)

\* ------------------------------------------------------------------- C5

\* C5: an issuer string decodes as a DecentralizedIdentifier exactly when it
\* begins with "did:web:"; the result is then Web(r) with "did:web:" followed
\* by r being the string, and any other string is a decode error.
C5_DidWeb ==
    (Returned("DecentralizedIdentifier::deserialize") /\ IsText(arg))
        => IF StartsWith(arg.str, <<"d","i","d",":","w","e","b",":">>)
           THEN /\ ret.kind = "Ok"
                /\ ret.val.variant = "Web"
                /\ <<"d","i","d",":","w","e","b",":">> \o ret.val.id = arg.str
           ELSE ret.kind = "Err"

\* ------------------------------------------------------------------- C6

I64LessEq(a, b) == a.hi < b.hi \/ (a.hi = b.hi /\ a.lo <= b.lo)

\* the seconds of -262143-01-01T00:00:00 and of +262142-12-31T23:59:59
InCalendarRange(n) ==
    I64LessEq(I64(-3882, 1930292736), n) /\ I64LessEq(n, I64(3823, 436890495))

\* C6: an integer of epoch seconds outside the calendar range makes
\* deserialize_numeric_date return an error value: no clamping, no abort.
C6_OutOfRangeIsError ==
    (Returned("deserialize_numeric_date") /\ arg.t = "int" /\ ~InCalendarRange(arg.int))
        => ret.kind = "Err"

\* ------------------------------------------------------------------- C1

\* the value of the entry with key k in a sequence of entries
Get(entries, k) == entries[CHOOSE i \in 1..Len(entries) : entries[i].k = k].v

Once(entries, k) == Cardinality({i \in 1..Len(entries) : entries[i].k = k}) = 1

AllStr(value) == value.t = "seq" /\ \A i \in 1..Len(value.seq) : value.seq[i].t = "str"

AllText(value) == value.t = "seq" /\ \A i \in 1..Len(value.seq) : IsText(value.seq[i])

HEX_CHARS == <<"0","1","2","3","4","5","6","7","8","9","a","b","c","d","e","f">>

to_ascii_lowercase(c) == IF IndexOf(UPPER, c) > 0 THEN LOWER[IndexOf(UPPER, c)] ELSE c

\* text of a UUID in hyphenated form, upper or lower case
IsUuidText(text) ==
    /\ Len(text) = 36
    /\ \A i \in 1..36 : IF i \in HyphenAt THEN text[i] = "-"
                        ELSE IndexOf(HEX_CHARS, to_ascii_lowercase(text[i])) > 0

\* days from 1970-01-01 to a date of the proleptic Gregorian calendar
DaysFromCivil(date) ==
    LET y == IF date.month <= 2 THEN date.year - 1 ELSE date.year
        era == y \div 400
        yoe == y - era * 400
        mp == IF date.month > 2 THEN date.month - 3 ELSE date.month + 9
        doy == (153 * mp + 2) \div 5 + date.day - 1
        doe == yoe * 365 + yoe \div 4 - yoe \div 100 + doy
    IN era * 146097 + doe - 719468

\* t is n seconds after 1970-01-01T00:00:00
IsEpochPlus(t, n) ==
    /\ t.secs \in 0..86399
    /\ DaysFromCivil(t.date) = DivEuclid86400(n)
    /\ t.secs = RemEuclid86400(n)

TwoDigits(n) == <<DIGITS[(n \div 10) + 1], DIGITS[(n % 10) + 1]>>

\* YYYY-MM-DD of a date of the years 0..9999
IsoText(date) ==
    TwoDigits(date.year \div 100) \o TwoDigits(date.year % 100) \o <<"-">>
    \o TwoDigits(date.month) \o <<"-">> \o TwoDigits(date.day)

\* the credentialSubject value is one the subject type T decodes
DecodableSubject(T, value) ==
    IF T = "String" THEN IsText(value)
    ELSE /\ value.t = "map"
         /\ \A k \in {"givenName", "familyName", "dob"} : Once(value.map, k)
         /\ IsText(Get(value.map, "givenName"))
         /\ IsText(Get(value.map, "familyName"))
         /\ IsText(Get(value.map, "dob"))
         /\ \E y \in 1900..2000, m \in 1..12 :
              \E d \in 1..DaysInMonth(y, m) :
                 Get(value.map, "dob").str = IsoText([year |-> y, month |-> m, day |-> d])

\* the decoded subject holds what the credentialSubject value spells
SubjectEquals(T, subject, value) ==
    IF T = "String" THEN subject = value.str
    ELSE /\ subject.given_name = Get(value.map, "givenName").str
         /\ subject.family_name = Get(value.map, "familyName").str
         /\ IsoText(subject.date_of_birth) = Get(value.map, "dob").str

\* the cti value is a UUID: its text, bare or after "urn:uuid:", or, in a
\* format that has byte strings, its sixteen bytes
IsUuidValue(cti) ==
    \/ IsText(cti) /\ IsUuidText(cti.str)
    \/ IsText(cti) /\ StartsWith(cti.str, URN_PREFIX) /\ IsUuidText(Drop(cti.str, 9))
    \/ cti.t = "bytes" /\ Len(cti.bytes) = 16

\* the 32 hexadecimal digits of the UUID that the cti value is
UuidDigits(cti) ==
    IF cti.t = "bytes"
    THEN [i \in 1..32 |-> IF i % 2 = 1 THEN cti.bytes[(i + 1) \div 2] \div 16
                                        ELSE cti.bytes[i \div 2] % 16]
    ELSE LET uuid_text == IF StartsWith(cti.str, URN_PREFIX) THEN Drop(cti.str, 9) ELSE cti.str
             digits == SelectSeq(uuid_text, LAMBDA c : c # "-")
         IN [i \in 1..32 |-> IndexOf(HEX_CHARS, to_ascii_lowercase(digits[i])) - 1]

\* a record with each of cti, iss, nbf, exp and vc once (other keys allowed),
\* every one of them well-formed
ValidRecord(T, value) ==
    /\ value.t = "map"
    /\ \A k \in {"cti", "iss", "nbf", "exp", "vc"} : Once(value.map, k)
    /\ \A i \in 1..Len(value.map) : ~HasEof(value.map[i].v)
    /\ LET iss == Get(value.map, "iss")
           nbf == Get(value.map, "nbf")
           exp == Get(value.map, "exp")
           vc == Get(value.map, "vc")
       IN /\ IsUuidValue(Get(value.map, "cti"))
          /\ IsText(iss) /\ StartsWith(iss.str, <<"d","i","d",":","w","e","b",":">>)
          /\ nbf.t = "int" /\ InCalendarRange(nbf.int)
          /\ exp.t = "int" /\ InCalendarRange(exp.int)
          /\ vc.t = "map"
          /\ \A k \in {"@context", "type", "version", "credentialSubject"} : Once(vc.map, k)
          /\ AllText(Get(vc.map, "@context"))
          /\ AllText(Get(vc.map, "type")) /\ Len(Get(vc.map, "type").seq) = 2
          /\ IsText(Get(vc.map, "version"))
          /\ DecodableSubject(T, Get(vc.map, "credentialSubject"))

\* the decoded payload holds what the record spells, the two timestamps aside
FieldsEqual(T, payload, value) ==
    LET vc == Get(value.map, "vc").map
    IN /\ payload.cwt_token_id = UuidDigits(Get(value.map, "cti"))
       /\ payload.issuer.variant = "Web"
       /\ <<"d","i","d",":","w","e","b",":">> \o payload.issuer.id = Get(value.map, "iss").str
       /\ payload.verifiable_credential.context
            = [i \in 1..Len(Get(vc, "@context").seq) |-> Get(vc, "@context").seq[i].str]
       /\ payload.verifiable_credential._type
            = <<Get(vc, "type").seq[1].str, Get(vc, "type").seq[2].str>>
       /\ payload.verifiable_credential.version = Get(vc, "version").str
       /\ SubjectEquals(T, payload.verifiable_credential.credential_subject,
                        Get(vc, "credentialSubject"))

TimestampsEqual(payload, value) ==
    /\ IsEpochPlus(payload.not_before, Get(value.map, "nbf").int)
    /\ IsEpochPlus(payload.expiry, Get(value.map, "exp").int)

\* C1: a record that holds cti, iss, nbf, exp and vc, each well-formed, decodes
\* into a CwtPayload, and every decoded field is the encoded value: the token
\* id is that UUID, the issuer Web(d), not_before and expiry the epoch plus n
\* and e seconds, context, type, version and subject the encoded literals.
C1_ValidRecordDecodes ==
    (Returned("CwtPayload::deserialize") /\ ValidRecord(arg.T, arg.value))
        => /\ ret.kind = "Ok"
           /\ FieldsEqual(arg.T, ret.val, arg.value)
           /\ TimestampsEqual(ret.val, arg.value)

\* ------------------------------------------------------------------- C7

\* the vc of the record is a map whose type is a pair of strings
HasTypePair(value) ==
    /\ value.t = "map" /\ Once(value.map, "vc")
    /\ Get(value.map, "vc").t = "map" /\ Once(Get(value.map, "vc").map, "type")
    /\ AllStr(Get(Get(value.map, "vc").map, "type"))
    /\ Len(Get(Get(value.map, "vc").map, "type").seq) = 2

\* C7: a type pair whose second element is not the CREDENTIAL_TYPE of the
\* subject type that the caller asked for never decodes successfully.
C7_TypeMismatchFails ==
    (/\ Returned("CwtPayload::deserialize")
     /\ CREDENTIAL_TYPE(arg.T).some
     /\ HasTypePair(arg.value)
     /\ Get(Get(arg.value.map, "vc").map, "type").seq[2].str # CREDENTIAL_TYPE(arg.T).v)
        => ret.kind # "Ok"

\* ------------------------------------------------------------------- C8

\* C8: CwtPayload::from_barcode always returns, a payload or an error value;
\* it never aborts.
C8_FromBarcodeReturns ==
    Returned("from_barcode") => ret.kind \in {"Ok", "Err"}

\* ------------------------------------------------------------------- C9

\* four digits, '-', two digits, '-', two digits
MatchesYmdForm(text) ==
    /\ Len(text) = 10
    /\ \A i \in 1..10 : IF i \in {5, 8} THEN text[i] = "-" ELSE IsDigit(text[i])

\* the date that a text of that form names exists
NamesRealDate(text) ==
    LET year == DecimalValue(SubSeq(text, 1, 4))
        month == DecimalValue(SubSeq(text, 6, 7))
        day == DecimalValue(SubSeq(text, 9, 10))
    IN month \in 1..12 /\ day >= 1 /\ day <= DaysInMonth(year, month)

\* C9: a dob text that is not of the form YYYY-MM-DD, or names an impossible
\* date, fails with InvalidDateOfBirth and is never accepted as a date.
C9_BadDobIsRejected ==
    (/\ Returned("deserialize_iso_8601_date")
     /\ arg.t = "str"
     /\ ~(MatchesYmdForm(arg.str) /\ NamesRealDate(arg.str)))
        => (ret.kind = "Err" /\ ret.err.msg = "InvalidDateOfBirth")

\* ------------------------------------------------------------------ C10

\* C10: a verifiable credential envelope decodes only with a non-empty
\* @context.
C10_ContextNonEmpty ==
    (Returned("VerifiableCredential::deserialize") /\ ret.kind = "Ok")
        => Len(ret.val.context) > 0

====
